---------------------------- MODULE Spec2Model ----------------------------
(***************************************************************************)
(* Process supervision and recording-session lifecycle of SkyMonitor:      *)
(* RtspManager (src/app/rtsp.py) and VideoRecorder (src/app/recorder.py).  *)
(* Strings that the code inspects character by character (URLs, numeric    *)
(* form fields, file names) are sequences of one-character strings; paths  *)
(* are sequences of components.  External processes and the file system    *)
(* are the environment: their answers are chosen nondeterministically at   *)
(* the step where the code asks, and recorded in log variables.            *)
(***************************************************************************)
EXTENDS Integers, Sequences, FiniteSets, TLC

\* ------------------------------------------------------------------ bounds
MaxCameras == 2      \* cameras in one configuration snapshot
MaxPid     == 3      \* transcode process instances ever spawned
MaxDepth   == 5      \* components of the HLS root path
MaxRecPid  == 2      \* recording process instances ever spawned

\* ------------------------------------------------------- strings and paths
Range(s) == {s[i] : i \in DOMAIN s}

IsSpace(ch) == ch = " "

RECURSIVE LStrip(_)
LStrip(s) == IF s # <<>> /\ IsSpace(Head(s)) THEN LStrip(Tail(s)) ELSE s

RECURSIVE RStrip(_)
RStrip(s) ==
    IF s # <<>> /\ IsSpace(s[Len(s)]) THEN RStrip(SubSeq(s, 1, Len(s) - 1)) ELSE s

\* str.strip(): leading and trailing whitespace removed
Strip(s) == RStrip(LStrip(s))

Digits == {"0", "1", "2", "3", "4", "5", "6", "7", "8", "9"}

\* int(v or default) raises ValueError unless v is falsy (defaulted) or numeric
IntRaises(v) == v # <<>> /\ \E i \in DOMAIN v : v[i] \notin Digits

\* Path.is_absolute()
IsAbsolute(p) == p # <<>> /\ p[1] = "/"

\* Path.parent
Parent(p) == IF Len(p) > 1 THEN SubSeq(p, 1, Len(p) - 1) ELSE p

\* BASE_DIR of config.py
BASE_DIR == <<"/", "app">>

\* config.get("hls_root") or "hls"
RootOrDefault(r) == IF r = <<>> THEN <<"hls">> ELSE r

\* config.ensure_hls_root: the root RtspManager is constructed with
ensure_hls_root(cfgRoot) ==
    IF IsAbsolute(RootOrDefault(cfgRoot)) THEN RootOrDefault(cfgRoot)
    ELSE BASE_DIR \o RootOrDefault(cfgRoot)

\* RtspManager._resolve_hls_root: relative to the parent of the current root
resolve_hls_root(cur, cfgRoot) ==
    IF IsAbsolute(RootOrDefault(cfgRoot)) THEN RootOrDefault(cfgRoot)
    ELSE Parent(cur) \o RootOrDefault(cfgRoot)

\* ------------------------------------------------------------------ inputs
Camera(id, enabled, url, width, height, fps) ==
    [id |-> id, enabled |-> enabled, rtsp_url |-> url,
     width |-> width, height |-> height, fps |-> fps]

Url == <<"r">>

\* camera definitions a configuration may hold
CameraPool ==
    { Camera("cam1", TRUE,  Url, <<>>, <<>>, <<>>),
      Camera("cam2", TRUE,  <<" ", "r", " ">>, <<"6", "4">>, <<"4", "8">>, <<"5">>),
      Camera("cam1", FALSE, Url, <<>>, <<>>, <<>>),
      Camera("cam2", TRUE,  <<" ">>, <<>>, <<>>, <<>>),
      Camera("cam2", TRUE,  Url, <<>>, <<>>, <<"x">>),
      Camera("",     TRUE,  Url, <<>>, <<>>, <<>>) }

RootChoices == { <<>>, <<"a", "b">>, <<"/", "srv">> }

CameraLists == UNION { [1..n -> CameraPool] : n \in 0..MaxCameras }

Configs == [hls_root : RootChoices, cameras : CameraLists]

\* snapshots that leave the output root at its default
DefaultRootConfigs == {cfg \in Configs : cfg.hls_root = <<>>}

StopOutcomes == {"exited", "timeout_killed", "terminate_error", "kill_error"}

\* ------------------------------------------------------------------- state
VARIABLES
    processes,   \* RtspManager.processes: sequence of [id, pid], insertion order
    hls_root,    \* RtspManager.hls_root
    alive,       \* transcode processes running in the operating system: [id, pid]
    nextPid,     \* next process instance
    pc,          \* position of the supervisor: "idle", "stopping", "starting"
    op,          \* the call in progress, or the last one
    result,      \* how the last call ended: "none", "returned", "raised"
    config,      \* the snapshot given to apply_config
    queue,       \* stop_all: list(self.processes.items()) still to visit
    idx,         \* apply_config: index of the next camera of the snapshot
    before,      \* the process table when the current call began
    repeat,      \* the call is apply_config directly after a returned apply_config of the same snapshot
    stopLog,     \* what happened to each process visited by the current stop_all
    startLog     \* what each launch attempted by the current call answered

rtspVars == <<processes, hls_root, alive, nextPid, pc, op, result, config, queue, idx,
              before, repeat, stopLog, startLog>>

VARIABLES
    rec_hls_root,  \* VideoRecorder.hls_root
    sessions,      \* VideoRecorder.sessions: session id -> sequence of [cam, pid, path]
    manifests,     \* directories that hold an index.m3u8
    files,         \* recording files that exist on disk
    recAlive,      \* recording processes running in the operating system: [pid, path]
    recNextPid,    \* next recording process instance
    rpc,           \* position of the recorder's caller: "idle", "rec_starting", "rec_stopping"
    rop,           \* the synchronous recorder call in progress, or the last one
    frame,         \* its arguments and locals: camera_ids, cam_name_map, session_id,
                   \* timestamp, session (the popped one)
    todo,          \* the rest of the list its loop iterates over
    output_paths,  \* stop_recording: the result being built, a set of [cam, path]
    recLog,        \* what the environment answered at each iteration of the current call
    absent,        \* stop_recording: the session id was not in the table at the call
    prevStop,      \* session id of the stop_recording that was the previous call, or NoSid
    replaced,      \* entries start_recording dropped by assigning {} to an id in the table
    tasks,         \* record_cameras: one record per _record_single_camera coroutine
    gstate,        \* record_cameras: "none", "running", "returned"
    gret           \* record_cameras: the returned map, a set of [cam, path]

recVars == <<rec_hls_root, sessions, manifests, files, recAlive, recNextPid, rpc,
             rop, frame, todo, output_paths, recLog, absent, prevStop, replaced, tasks, gstate,
             gret>>

vars == <<rtspVars, recVars>>

Keys(table) == {table[i].id : i \in DOMAIN table}
Pids(table) == {table[i].pid : i \in DOMAIN table}

\* dict.pop(cam_id, None)
Pop(table, id) == SelectSeq(table, LAMBDA e : e.id # id)

EmptyConfig == [hls_root |-> <<>>, cameras |-> <<>>]

NoSid == <<>>
NoNames == [c \in {} |-> <<>>]
NoFrame == [session_id |-> NoSid, timestamp |-> <<>>, names |-> NoNames,
            camera_ids |-> <<>>, session |-> <<>>]

\* VideoRecorder.__init__, with the manifests dirs that are on disk then
InitRecorderWith(dirs) ==
    /\ rec_hls_root = ensure_hls_root(<<>>)
    /\ sessions = [s \in {} |-> <<>>]
    /\ manifests = dirs
    /\ files = {}
    /\ recAlive = {}
    /\ recNextPid = 1
    /\ rpc = "idle"
    /\ rop = "none"
    /\ frame = NoFrame
    /\ todo = <<>>
    /\ output_paths = {}
    /\ recLog = {}
    /\ absent = FALSE
    /\ prevStop = NoSid
    /\ replaced = {}
    /\ tasks = <<>>
    /\ gstate = "none"
    /\ gret = {}

InitRecorder == InitRecorderWith({})

\* RtspManager.__init__
InitRtsp ==
    /\ processes = <<>>
    /\ hls_root = ensure_hls_root(<<>>)
    /\ alive = {}
    /\ nextPid = 1
    /\ pc = "idle"
    /\ op = "none"
    /\ result = "none"
    /\ config = EmptyConfig
    /\ queue = <<>>
    /\ idx = 1
    /\ before = <<>>
    /\ repeat = FALSE
    /\ stopLog = {}
    /\ startLog = {}

Init == InitRecorder /\ InitRtsp

\* ------------------------------------------------------------- RtspManager

\* one iteration of stop_all's loop, for the entry e and what the process did
StopOneMissingPop(e, outcome) ==
    /\ alive' = IF outcome \in {"exited", "timeout_killed"} THEN alive \ {e} ELSE alive
    /\ processes' = IF outcome \in {"terminate_error", "kill_error"}
                    THEN processes ELSE Pop(processes, e.id)
    /\ stopLog' = stopLog \cup {[id |-> e.id, outcome |-> outcome]}

StopOne(e, outcome) ==
    /\ alive' = IF outcome \in {"exited", "timeout_killed"} THEN alive \ {e} ELSE alive
    /\ processes' = Pop(processes, e.id)
    /\ stopLog' = stopLog \cup {[id |-> e.id, outcome |-> outcome]}

\* the outcomes the process e can produce: a dead process is waited for at once
PossibleOutcomes(e) ==
    IF e \in alive THEN StopOutcomes ELSE {"exited", "terminate_error"}

\* the camera's output directory was removed if present and created again
DirReset(camera) == [id |-> camera.id, env |-> "dir_reset"]

\* start_camera that starts a new process for a camera that is already tracked
StartCameraRestartsTracked(camera, raised, log) ==
    IF camera.id = "" \/ Strip(camera.rtsp_url) = <<>>
    THEN /\ ~raised
         /\ startLog' = log
         /\ UNCHANGED <<processes, alive, nextPid>>
    ELSE \E env \in {"spawned", "popen_error", "mkdir_error"} :
            /\ raised = (env = "mkdir_error" \/ IntRaises(camera.width)
                            \/ IntRaises(camera.height) \/ IntRaises(camera.fps))
            /\ IF raised \/ env = "popen_error"
               THEN /\ UNCHANGED <<processes, alive, nextPid>>
                    /\ startLog' = log \cup {DirReset(camera)}
               ELSE /\ processes' = Append(Pop(processes, camera.id),
                                           [id |-> camera.id, pid |-> nextPid])
                    /\ alive' = alive \cup {[id |-> camera.id, pid |-> nextPid]}
                    /\ nextPid' = nextPid + 1
                    /\ startLog' = log \cup {DirReset(camera)}

\* start_camera; raised is whether it ends by raising, log the launches so far;
\* the mutations of it come first
StartCameraNoUrlCheck(camera, raised, log) ==
    IF camera.id = "" \/ camera.id \in Keys(processes)
    THEN /\ ~raised
         /\ startLog' = log
         /\ UNCHANGED <<processes, alive, nextPid>>
    ELSE \E env \in {"spawned", "popen_error", "mkdir_error"} :
            /\ raised = (env = "mkdir_error" \/ IntRaises(camera.width)
                            \/ IntRaises(camera.height) \/ IntRaises(camera.fps))
            /\ IF raised \/ env = "popen_error"
               THEN /\ UNCHANGED <<processes, alive, nextPid>>
                    /\ startLog' = IF raised THEN log \cup {DirReset(camera)}
                                   ELSE log \cup {DirReset(camera), [id |-> camera.id, env |-> env]}
               ELSE /\ processes' = Append(processes, [id |-> camera.id, pid |-> nextPid])
                    /\ alive' = alive \cup {[id |-> camera.id, pid |-> nextPid]}
                    /\ nextPid' = nextPid + 1
                    /\ startLog' = log \cup {DirReset(camera), [id |-> camera.id, env |-> env]}

\* start_camera whose failed launch is not caught
StartCameraPopenRaises(camera, raised, log) ==
    IF camera.id = "" \/ camera.id \in Keys(processes)
    THEN /\ ~raised
         /\ startLog' = log
         /\ UNCHANGED <<processes, alive, nextPid>>
    ELSE IF Strip(camera.rtsp_url) = <<>>
    THEN /\ ~raised
         /\ startLog' = log
         /\ UNCHANGED <<processes, alive, nextPid>>
    ELSE \E env \in {"spawned", "popen_error", "mkdir_error"} :
            LET invalid == env = "mkdir_error" \/ IntRaises(camera.width)
                              \/ IntRaises(camera.height) \/ IntRaises(camera.fps)
            IN  /\ raised = (invalid \/ env = "popen_error")
                /\ IF raised
                   THEN /\ UNCHANGED <<processes, alive, nextPid>>
                        /\ startLog' = IF invalid THEN log \cup {DirReset(camera)}
                                       ELSE log \cup {DirReset(camera), [id |-> camera.id, env |-> env]}
                   ELSE /\ processes' = Append(processes, [id |-> camera.id, pid |-> nextPid])
                        /\ alive' = alive \cup {[id |-> camera.id, pid |-> nextPid]}
                        /\ nextPid' = nextPid + 1
                        /\ startLog' = log \cup {DirReset(camera), [id |-> camera.id, env |-> env]}

start_camera(camera, raised, log) ==
    IF camera.id = "" \/ camera.id \in Keys(processes)
    THEN /\ ~raised
         /\ startLog' = log
         /\ UNCHANGED <<processes, alive, nextPid>>
    ELSE IF Strip(camera.rtsp_url) = <<>>
    THEN /\ ~raised
         /\ startLog' = log
         /\ UNCHANGED <<processes, alive, nextPid>>
    ELSE \E env \in {"spawned", "popen_error", "mkdir_error"} :
            /\ raised = (env = "mkdir_error" \/ IntRaises(camera.width)
                            \/ IntRaises(camera.height) \/ IntRaises(camera.fps))
            /\ IF raised \/ env = "popen_error"
               THEN /\ UNCHANGED <<processes, alive, nextPid>>
                    /\ startLog' = IF raised THEN log \cup {DirReset(camera)}
                                   ELSE log \cup {DirReset(camera), [id |-> camera.id, env |-> env]}
               ELSE /\ processes' = Append(processes, [id |-> camera.id, pid |-> nextPid])
                    /\ alive' = alive \cup {[id |-> camera.id, pid |-> nextPid]}
                    /\ nextPid' = nextPid + 1
                    /\ startLog' = log \cup {DirReset(camera), [id |-> camera.id, env |-> env]}

\* apply_config that starts the snapshot's cameras without stopping anything first
ApplyConfigCallNoStop(cfgs) ==
    \E cfg \in cfgs :
        /\ pc = "idle"
        /\ nextPid + Len(cfg.cameras) - 1 <= MaxPid
        /\ Len(resolve_hls_root(hls_root, cfg.hls_root)) <= MaxDepth
        /\ repeat' = (op = "apply_config" /\ result = "returned" /\ config = cfg)
        /\ op' = "apply_config"
        /\ config' = cfg
        /\ pc' = "stopping"
        /\ queue' = <<>>
        /\ before' = processes
        /\ stopLog' = {}
        /\ startLog' = {}
        /\ result' = "none"
        /\ idx' = 1
        /\ UNCHANGED recVars
        /\ UNCHANGED <<processes, hls_root, alive, nextPid>>

\* apply_config is called: stop_all begins over a snapshot of the table
ApplyConfigCall(cfgs) ==
    \E cfg \in cfgs :
        /\ pc = "idle"
        /\ nextPid + Len(cfg.cameras) - 1 <= MaxPid
        /\ Len(resolve_hls_root(hls_root, cfg.hls_root)) <= MaxDepth
        /\ repeat' = (op = "apply_config" /\ result = "returned" /\ config = cfg)
        /\ op' = "apply_config"
        /\ config' = cfg
        /\ pc' = "stopping"
        /\ queue' = processes
        /\ before' = processes
        /\ stopLog' = {}
        /\ startLog' = {}
        /\ result' = "none"
        /\ idx' = 1
        /\ UNCHANGED recVars
        /\ UNCHANGED <<processes, hls_root, alive, nextPid>>

\* stop_all is called on its own
StopAllCall ==
    /\ pc = "idle"
    /\ op' = "stop_all"
    /\ pc' = "stopping"
    /\ queue' = processes
    /\ before' = processes
    /\ repeat' = FALSE
    /\ stopLog' = {}
    /\ startLog' = {}
    /\ result' = "none"
    /\ config' = EmptyConfig
    /\ UNCHANGED recVars
    /\ UNCHANGED <<processes, hls_root, alive, nextPid, idx>>

\* stop_all visits the next entry of its snapshot
StopStep ==
    /\ pc = "stopping"
    /\ queue # <<>>
    /\ \E outcome \in PossibleOutcomes(Head(queue)) : StopOne(Head(queue), outcome)
    /\ queue' = Tail(queue)
    /\ UNCHANGED recVars
    /\ UNCHANGED <<hls_root, nextPid, pc, op, result, config, idx, before, repeat, startLog>>

\* stop_all is over: it returns, or apply_config goes on to resolve the root
StopDone ==
    /\ pc = "stopping"
    /\ queue = <<>>
    /\ IF op = "apply_config"
       THEN \E mkdirOk \in BOOLEAN :
               IF mkdirOk
               THEN /\ hls_root' = resolve_hls_root(hls_root, config.hls_root)
                    /\ pc' = "starting"
                    /\ UNCHANGED <<result, idx>>
               ELSE /\ pc' = "idle"
                    /\ result' = "raised"
                    /\ UNCHANGED <<hls_root, idx>>
       ELSE /\ pc' = "idle"
            /\ result' = "returned"
            /\ UNCHANGED <<hls_root, idx>>
    /\ UNCHANGED recVars
    /\ UNCHANGED <<processes, alive, nextPid, op, config, queue, before, repeat,
                   stopLog, startLog>>

\* apply_config's loop over the cameras of the snapshot
StartStep ==
    /\ pc = "starting"
    /\ idx <= Len(config.cameras)
    /\ IF config.cameras[idx].enabled
       THEN \E raised \in BOOLEAN :
               /\ start_camera(config.cameras[idx], raised, startLog)
               /\ IF raised
                  THEN pc' = "idle" /\ result' = "raised" /\ UNCHANGED idx
                  ELSE idx' = idx + 1 /\ UNCHANGED <<pc, result>>
       ELSE /\ idx' = idx + 1
            /\ UNCHANGED <<processes, alive, nextPid, startLog, pc, result>>
    /\ UNCHANGED recVars
    /\ UNCHANGED <<hls_root, op, config, queue, before, repeat, stopLog>>

\* apply_config returns
StartDone ==
    /\ pc = "starting"
    /\ idx > Len(config.cameras)
    /\ pc' = "idle"
    /\ result' = "returned"
    /\ UNCHANGED recVars
    /\ UNCHANGED <<processes, hls_root, alive, nextPid, op, config, queue, idx,
                   before, repeat, stopLog, startLog>>

\* start_camera is called on its own
StartCameraCall ==
    \E camera \in CameraPool, raised \in BOOLEAN :
        /\ pc = "idle"
        /\ nextPid <= MaxPid
        /\ before' = processes
        /\ op' = "start_camera"
        /\ repeat' = FALSE
        /\ stopLog' = {}
        /\ start_camera(camera, raised, {})
        /\ result' = IF raised THEN "raised" ELSE "returned"
        /\ config' = [hls_root |-> <<>>, cameras |-> <<camera>>]
        /\ UNCHANGED recVars
        /\ UNCHANGED <<hls_root, pc, queue, idx>>

\* a transcode process ends by itself
TranscodeExit ==
    \E p \in alive :
        /\ alive' = alive \ {p}
        /\ UNCHANGED recVars
        /\ UNCHANGED <<processes, hls_root, nextPid, pc, op, result, config, queue,
                       idx, before, repeat, stopLog, startLog>>

Next ==
    \/ ApplyConfigCall(DefaultRootConfigs)
    \/ StopAllCall
    \/ StopStep
    \/ StopDone
    \/ StartStep
    \/ StartDone
    \/ StartCameraCall
    \/ TranscodeExit

Spec == Init /\ [][Next]_vars

\* ------------------------------------------------------------ VideoRecorder

\* camera ids a recording is requested for
RecCams == {"cam1", "cam2"}

\* the characters of a camera id
IdChars(id) == IF id = "cam1" THEN <<"c", "a", "m", "1">> ELSE <<"c", "a", "m", "2">>

\* camera_ids: lists of distinct camera ids
CamLists ==
    {l \in UNION {[1..n -> RecCams] : n \in 0..Cardinality(RecCams)} :
        \A i, j \in DOMAIN l : l[i] = l[j] => i = j}

\* cam_name_map: camera id -> display name
NameMaps ==
    { NoNames,
      ("cam1" :> <<"F">>),
      ("cam1" :> <<"F">>) @@ ("cam2" :> <<"F">>) }

\* cam_name_map.get(cam_id, cam_id)
DisplayName(names, cam) == IF cam \in DOMAIN names THEN names[cam] ELSE IdChars(cam)

\* str(uuid.uuid4()): <<the first 8 characters, the other 28>>
Uuids == {<<"a", "x">>, <<"a", "y">>, <<"b", "x">>}

\* str(uuid.uuid4())[:8]
SessionIdOf(u) == <<u[1]>>

SessionIds == {SessionIdOf(u) : u \in Uuids}

\* datetime.now().strftime("%Y%m%d_%H%M%S"): fixed width, one underscore; two
\* calls read the same second or different ones
Timestamps == {<<"D", "_", "0">>, <<"D", "_", "1">>}

\* output_dir / f"record_{display_name}_{timestamp}.mp4", without the session id
FixedPath(name, ts) == <<"records/", "record_">> \o name \o <<"_">> \o ts \o <<".mp4">>

\* output_dir / f"record_{display_name}_{timestamp}_{session_id}.mp4"
SessionPath(name, ts, sid) ==
    <<"records/", "record_">> \o name \o <<"_">> \o ts \o <<"_">> \o sid \o <<".mp4">>

\* hls_root / cam_id: the directory whose index.m3u8 is looked for
ManifestDir(root, cam) == root \o <<cam>>

ItemCams(items) == {items[i].cam : i \in DOMAIN items}

\* self.sessions[session_id][cam_id] = (proc, output_path)
PutItem(items, item) ==
    IF item.cam \in ItemCams(items)
    THEN [i \in DOMAIN items |-> IF items[i].cam = item.cam THEN item ELSE items[i]]
    ELSE Append(items, item)

\* dict assignment self.sessions[sid] = v
SetSession(table, sid, v) ==
    [s \in DOMAIN table \cup {sid} |-> IF s = sid THEN v ELSE table[s]]

\* self.sessions.pop(sid, {}): the table left
DropSession(table, sid) == [s \in DOMAIN table \ {sid} |-> table[s]]

\* start_recording is called: the id and the timestamp are drawn, the session is created
StartRecordingCall(nameMaps, stamps) ==
    \E cams \in CamLists, names \in nameMaps, u \in Uuids, ts \in stamps :
        /\ rpc = "idle"
        /\ recNextPid + Len(cams) - 1 <= MaxRecPid
        /\ rop' = "start_recording"
        /\ rpc' = "rec_starting"
        /\ frame' = [session_id |-> SessionIdOf(u), timestamp |-> ts,
                     names |-> names, camera_ids |-> cams, session |-> <<>>]
        /\ sessions' = SetSession(sessions, SessionIdOf(u), <<>>)
        /\ replaced' = IF SessionIdOf(u) \in DOMAIN sessions
                       THEN replaced \cup Range(sessions[SessionIdOf(u)])
                       ELSE replaced
        /\ todo' = cams
        /\ recLog' = {}
        /\ output_paths' = {}
        /\ absent' = FALSE
        /\ prevStop' = NoSid
        /\ UNCHANGED <<rec_hls_root, manifests, files, recAlive, recNextPid,
                       tasks, gstate, gret>>
        /\ UNCHANGED rtspVars

\* one iteration of start_recording's loop that spawns without looking for the manifest
StartOneNoManifestCheck(cam, spawnOk) ==
    LET path == SessionPath(DisplayName(frame.names, cam), frame.timestamp,
                            frame.session_id)
        found == ManifestDir(rec_hls_root, cam) \in manifests
    IN  /\ recLog' = recLog \cup {[cam |-> cam, manifest |-> found,
                                   spawnOk |-> spawnOk]}
        /\ IF spawnOk
           THEN /\ sessions' = SetSession(sessions, frame.session_id,
                        PutItem(sessions[frame.session_id],
                                [cam |-> cam, pid |-> recNextPid, path |-> path]))
                /\ recAlive' = recAlive \cup {[pid |-> recNextPid, path |-> path]}
                /\ recNextPid' = recNextPid + 1
           ELSE UNCHANGED <<sessions, recAlive, recNextPid>>

\* one iteration of start_recording's loop, for camera cam; spawnOk is whether
\* Popen succeeds if it is reached
StartOne(cam, spawnOk) ==
    LET path == SessionPath(DisplayName(frame.names, cam), frame.timestamp,
                            frame.session_id)
        found == ManifestDir(rec_hls_root, cam) \in manifests
    IN  /\ recLog' = recLog \cup {[cam |-> cam, manifest |-> found,
                                   spawnOk |-> spawnOk]}
        /\ IF found /\ spawnOk
           THEN /\ sessions' = SetSession(sessions, frame.session_id,
                        PutItem(sessions[frame.session_id],
                                [cam |-> cam, pid |-> recNextPid, path |-> path]))
                /\ recAlive' = recAlive \cup {[pid |-> recNextPid, path |-> path]}
                /\ recNextPid' = recNextPid + 1
           ELSE UNCHANGED <<sessions, recAlive, recNextPid>>

StartRecStep ==
    /\ rpc = "rec_starting"
    /\ todo # <<>>
    /\ \E spawnOk \in BOOLEAN : StartOne(Head(todo), spawnOk)
    /\ todo' = Tail(todo)
    /\ UNCHANGED <<rec_hls_root, manifests, files, rpc, rop, frame, output_paths,
                   absent, prevStop, replaced, tasks, gstate, gret>>
    /\ UNCHANGED rtspVars

\* start_recording returns session_id; its other locals are gone
StartRecDone ==
    /\ rpc = "rec_starting"
    /\ todo = <<>>
    /\ rpc' = "idle"
    /\ frame' = [NoFrame EXCEPT !.session_id = frame.session_id,
                                !.camera_ids = frame.camera_ids]
    /\ UNCHANGED <<rec_hls_root, sessions, manifests, files, recAlive, recNextPid,
                   rop, todo, output_paths, recLog, absent, prevStop, replaced, tasks,
                   gstate, gret>>
    /\ UNCHANGED rtspVars

\* stop_recording that reads the session and leaves it in the table
StopRecordingCallNoPop ==
    \E sid \in SessionIds :
        /\ rpc = "idle"
        /\ rop' = "stop_recording"
        /\ rpc' = "rec_stopping"
        /\ frame' = [NoFrame EXCEPT !.session_id = sid,
                                    !.session = IF sid \in DOMAIN sessions
                                                THEN sessions[sid] ELSE <<>>]
        /\ absent' = (sid \notin DOMAIN sessions)
        /\ todo' = IF sid \in DOMAIN sessions THEN sessions[sid] ELSE <<>>
        /\ sessions' = sessions
        /\ output_paths' = {}
        /\ recLog' = {}
        /\ prevStop' = IF rop = "stop_recording" THEN frame.session_id ELSE NoSid
        /\ replaced' = replaced
        /\ UNCHANGED <<rec_hls_root, manifests, files, recAlive, recNextPid,
                       tasks, gstate, gret>>
        /\ UNCHANGED rtspVars

\* stop_recording is called: the session is popped from the table
StopRecordingCall ==
    \E sid \in SessionIds :
        /\ rpc = "idle"
        /\ rop' = "stop_recording"
        /\ rpc' = "rec_stopping"
        /\ frame' = [NoFrame EXCEPT !.session_id = sid,
                                    !.session = IF sid \in DOMAIN sessions
                                                THEN sessions[sid] ELSE <<>>]
        /\ absent' = (sid \notin DOMAIN sessions)
        /\ todo' = IF sid \in DOMAIN sessions THEN sessions[sid] ELSE <<>>
        /\ sessions' = DropSession(sessions, sid)
        /\ output_paths' = {}
        /\ recLog' = {}
        /\ prevStop' = IF rop = "stop_recording" THEN frame.session_id ELSE NoSid
        /\ replaced' = replaced
        /\ UNCHANGED <<rec_hls_root, manifests, files, recAlive, recNextPid,
                       tasks, gstate, gret>>
        /\ UNCHANGED rtspVars

\* what the recording process of item can do when it is stopped
RecOutcomes(item) ==
    IF [pid |-> item.pid, path |-> item.path] \in recAlive
    THEN StopOutcomes ELSE {"exited", "terminate_error"}

\* one iteration of stop_recording's loop that reports the path without looking for the file
StopRecOneNoFileCheck(item, outcome, flushed) ==
    LET proc == [pid |-> item.pid, path |-> item.path]
        written == IF outcome = "exited" /\ flushed /\ proc \in recAlive
                   THEN files \cup {item.path} ELSE files
    IN  /\ files' = written
        /\ recAlive' = IF outcome \in {"exited", "timeout_killed"}
                       THEN recAlive \ {proc} ELSE recAlive
        /\ recLog' = recLog \cup {[cam |-> item.cam, outcome |-> outcome,
                                   file |-> item.path \in written]}
        /\ output_paths' =
              IF outcome \in {"exited", "timeout_killed"}
              THEN output_paths \cup {[cam |-> item.cam, path |-> item.path]}
              ELSE output_paths

\* one iteration of stop_recording's loop; flushed is whether the terminated
\* process writes its file out before it exits
StopRecOne(item, outcome, flushed) ==
    LET proc == [pid |-> item.pid, path |-> item.path]
        written == IF outcome = "exited" /\ flushed /\ proc \in recAlive
                   THEN files \cup {item.path} ELSE files
    IN  /\ files' = written
        /\ recAlive' = IF outcome \in {"exited", "timeout_killed"}
                       THEN recAlive \ {proc} ELSE recAlive
        /\ recLog' = recLog \cup {[cam |-> item.cam, outcome |-> outcome,
                                   file |-> item.path \in written]}
        /\ output_paths' =
              IF outcome \in {"exited", "timeout_killed"} /\ item.path \in written
              THEN output_paths \cup {[cam |-> item.cam, path |-> item.path]}
              ELSE output_paths

\* stop_recording's loop without the handler around the body: an error of
\* terminate or kill ends the loop
StopRecStepAbortsOnError ==
    /\ rpc = "rec_stopping"
    /\ todo # <<>>
    /\ \E outcome \in RecOutcomes(Head(todo)), flushed \in BOOLEAN :
          /\ StopRecOne(Head(todo), outcome, flushed)
          /\ todo' = IF outcome \in {"terminate_error", "kill_error"}
                     THEN <<>> ELSE Tail(todo)
    /\ UNCHANGED <<rec_hls_root, sessions, manifests, recNextPid, rpc, rop, frame,
                   absent, prevStop, replaced, tasks, gstate, gret>>
    /\ UNCHANGED rtspVars

\* stop_recording's loop over the entries of the popped session
StopRecStep ==
    /\ rpc = "rec_stopping"
    /\ todo # <<>>
    /\ \E outcome \in RecOutcomes(Head(todo)), flushed \in BOOLEAN :
          StopRecOne(Head(todo), outcome, flushed)
    /\ todo' = Tail(todo)
    /\ UNCHANGED <<rec_hls_root, sessions, manifests, recNextPid, rpc, rop, frame,
                   absent, prevStop, replaced, tasks, gstate, gret>>
    /\ UNCHANGED rtspVars

\* stop_recording returns output_paths
StopRecDone ==
    /\ rpc = "rec_stopping"
    /\ todo = <<>>
    /\ rpc' = "idle"
    /\ UNCHANGED <<rec_hls_root, sessions, manifests, files, recAlive, recNextPid,
                   rop, frame, todo, output_paths, recLog, absent, prevStop, replaced, tasks,
                   gstate, gret>>
    /\ UNCHANGED rtspVars

\* VideoRecorder.stop_all: the class body defines it twice and the later
\* definition is the one bound to the name; it reads self.processes, which
\* __init__ never sets, so the call raises AttributeError at its first line
RecStopAllCall ==
    /\ rpc = "idle"
    /\ rop' = "stop_all"
    /\ recLog' = {[raised |-> "AttributeError"]}
    /\ frame' = NoFrame
    /\ todo' = <<>>
    /\ output_paths' = {}
    /\ absent' = FALSE
    /\ prevStop' = NoSid
    /\ UNCHANGED <<rec_hls_root, sessions, manifests, files, recAlive, recNextPid, rpc,
                   replaced, tasks, gstate, gret>>
    /\ UNCHANGED rtspVars

\* --- the environment of the recorder

\* a running recording process writes its output file
RecWrite ==
    \E p \in recAlive :
        /\ p.path \notin files
        /\ files' = files \cup {p.path}
        /\ UNCHANGED <<rec_hls_root, sessions, manifests, recAlive, recNextPid, rpc,
                       rop, frame, todo, output_paths, recLog, absent, prevStop, replaced, tasks,
                       gstate, gret>>
        /\ UNCHANGED rtspVars

\* a recording process ends by itself
RecExit ==
    \E p \in recAlive :
        /\ recAlive' = recAlive \ {p}
        /\ UNCHANGED <<rec_hls_root, sessions, manifests, files, recNextPid, rpc,
                       rop, frame, todo, output_paths, recLog, absent, prevStop, replaced, tasks,
                       gstate, gret>>
        /\ UNCHANGED rtspVars

\* a camera's live manifest appears under the recorder's root, or is deleted
ManifestChange ==
    \E cam \in RecCams :
        /\ rpc = "idle"
        /\ manifests' = IF ManifestDir(rec_hls_root, cam) \in manifests
                        THEN manifests \ {ManifestDir(rec_hls_root, cam)}
                        ELSE manifests \cup {ManifestDir(rec_hls_root, cam)}
        /\ UNCHANGED <<rec_hls_root, sessions, files, recAlive, recNextPid, rpc,
                       rop, frame, todo, output_paths, recLog, absent, prevStop, replaced, tasks,
                       gstate, gret>>
        /\ UNCHANGED rtspVars

\* --- record_cameras: one coroutine per camera, awaited together

Task(cam, path) ==
    [cam |-> cam, path |-> path, state |-> "pending", pid |-> 0,
     env |-> "none", file |-> FALSE, kill |-> "none", result |-> "none"]

TaskProc(t) == [pid |-> t.pid, path |-> t.path]

\* record_cameras is called: the file names are fixed and the coroutines created
RecordCamerasCall(nameMaps, stamps) ==
    \E cams \in CamLists, names \in nameMaps, ts \in stamps :
        /\ rpc = "idle"
        /\ gstate # "running"
        /\ recNextPid + Len(cams) - 1 <= MaxRecPid
        /\ tasks' = [i \in DOMAIN cams |->
                        Task(cams[i], FixedPath(DisplayName(names, cams[i]), ts))]
        /\ gstate' = "running"
        /\ gret' = {}
        /\ UNCHANGED <<rec_hls_root, sessions, manifests, files, recAlive, recNextPid,
                       rpc, rop, frame, todo, output_paths, recLog, absent, prevStop, replaced>>
        /\ UNCHANGED rtspVars

\* _record_single_camera that spawns first and looks for the manifest afterwards
TaskStartSpawnsFirst ==
    \E i \in DOMAIN tasks, spawnOk \in BOOLEAN :
        /\ rpc = "idle"
        /\ gstate = "running"
        /\ tasks[i].state = "pending"
        /\ \A j \in DOMAIN tasks : j < i => tasks[j].state # "pending"
        /\ IF spawnOk
           THEN /\ recAlive' = recAlive \cup {[pid |-> recNextPid, path |-> tasks[i].path]}
                /\ recNextPid' = recNextPid + 1
                /\ tasks' = IF ManifestDir(rec_hls_root, tasks[i].cam) \notin manifests
                            THEN [tasks EXCEPT ![i].state = "done",
                                               ![i].pid = recNextPid,
                                               ![i].env = "no_manifest",
                                               ![i].result = "FileNotFoundError"]
                            ELSE [tasks EXCEPT ![i].state = "waiting",
                                               ![i].pid = recNextPid]
           ELSE /\ tasks' = [tasks EXCEPT ![i].state = "done",
                                          ![i].env = "spawn_failed",
                                          ![i].result = "OSError"]
                /\ UNCHANGED <<recAlive, recNextPid>>
        /\ UNCHANGED <<rec_hls_root, sessions, manifests, files, rpc, rop, frame, todo,
                       output_paths, recLog, absent, prevStop, replaced, gstate, gret>>
        /\ UNCHANGED rtspVars

\* _record_single_camera up to its await: manifest check and spawn
TaskStart ==
    \E i \in DOMAIN tasks, spawnOk \in BOOLEAN :
        /\ rpc = "idle"
        /\ gstate = "running"
        /\ tasks[i].state = "pending"
        /\ \A j \in DOMAIN tasks : j < i => tasks[j].state # "pending"
        /\ IF ManifestDir(rec_hls_root, tasks[i].cam) \notin manifests
           THEN /\ tasks' = [tasks EXCEPT ![i].state = "done",
                                          ![i].env = "no_manifest",
                                          ![i].result = "FileNotFoundError"]
                /\ UNCHANGED <<recAlive, recNextPid>>
           ELSE IF spawnOk
           THEN /\ tasks' = [tasks EXCEPT ![i].state = "waiting", ![i].pid = recNextPid]
                /\ recAlive' = recAlive \cup {[pid |-> recNextPid, path |-> tasks[i].path]}
                /\ recNextPid' = recNextPid + 1
           ELSE /\ tasks' = [tasks EXCEPT ![i].state = "done",
                                          ![i].env = "spawn_failed",
                                          ![i].result = "OSError"]
                /\ UNCHANGED <<recAlive, recNextPid>>
        /\ UNCHANGED <<rec_hls_root, sessions, manifests, files, rpc, rop, frame, todo,
                       output_paths, recLog, absent, prevStop, replaced, gstate, gret>>
        /\ UNCHANGED rtspVars

\* proc.wait returns before the timeout: the process has exited
TaskExited ==
    \E i \in DOMAIN tasks :
        /\ rpc = "idle"
        /\ gstate = "running"
        /\ tasks[i].state = "waiting"
        /\ TaskProc(tasks[i]) \notin recAlive
        /\ tasks' = [tasks EXCEPT ![i].state = "done",
                                  ![i].env = "exited",
                                  ![i].file = (tasks[i].path \in files),
                                  ![i].result = IF tasks[i].path \in files
                                                THEN "Path" ELSE "RuntimeError"]
        /\ UNCHANGED <<rec_hls_root, sessions, manifests, files, recAlive, recNextPid,
                       rpc, rop, frame, todo, output_paths, recLog, absent, prevStop, replaced,
                       gstate, gret>>
        /\ UNCHANGED rtspVars

\* a wait without a timeout: it ends only once the process is gone
TaskWaitsWithoutTimeout ==
    \E i \in DOMAIN tasks :
        /\ rpc = "idle"
        /\ gstate = "running"
        /\ tasks[i].state = "waiting"
        /\ TaskProc(tasks[i]) \notin recAlive
        /\ tasks' = [tasks EXCEPT ![i].state = "done",
                                  ![i].env = "exited",
                                  ![i].file = (tasks[i].path \in files),
                                  ![i].result = IF tasks[i].path \in files
                                                THEN "Path" ELSE "RuntimeError"]
        /\ UNCHANGED <<rec_hls_root, sessions, manifests, files, recAlive, recNextPid,
                       rpc, rop, frame, todo, output_paths, recLog, absent, prevStop,
                       replaced, gstate, gret>>
        /\ UNCHANGED rtspVars

\* the timeout of duration_seconds + 30 expires on a process that still runs
TaskTimeout ==
    \E i \in DOMAIN tasks :
        /\ rpc = "idle"
        /\ gstate = "running"
        /\ tasks[i].state = "waiting"
        /\ TaskProc(tasks[i]) \in recAlive
        /\ recAlive' = recAlive \ {TaskProc(tasks[i])}
        /\ tasks' = [tasks EXCEPT ![i].state = "done",
                                  ![i].env = "hung",
                                  ![i].file = (tasks[i].path \in files),
                                  ![i].kill = "killed",
                                  ![i].result = "TimeoutError"]
        /\ UNCHANGED <<rec_hls_root, sessions, manifests, files, recNextPid, rpc, rop,
                       frame, todo, output_paths, recLog, absent, prevStop, replaced, gstate, gret>>
        /\ UNCHANGED rtspVars

\* a gather that lets the first exception end the whole call
GatherFailFast ==
    /\ rpc = "idle"
    /\ gstate = "running"
    /\ \A i \in DOMAIN tasks : tasks[i].state = "done"
    /\ gret' = IF \E i \in DOMAIN tasks : tasks[i].result # "Path" THEN {}
               ELSE {[cam |-> tasks[i].cam, path |-> tasks[i].path] : i \in DOMAIN tasks}
    /\ gstate' = "returned"
    /\ UNCHANGED <<rec_hls_root, sessions, manifests, files, recAlive, recNextPid, rpc,
                   rop, frame, todo, output_paths, recLog, absent, prevStop, replaced, tasks>>
    /\ UNCHANGED rtspVars

\* gather(return_exceptions=True) is over: the Path results are collected
GatherReturn ==
    /\ rpc = "idle"
    /\ gstate = "running"
    /\ \A i \in DOMAIN tasks : tasks[i].state = "done"
    /\ gret' = {[cam |-> tasks[i].cam, path |-> tasks[i].path] :
                   i \in {j \in DOMAIN tasks : tasks[j].result = "Path"}}
    /\ gstate' = "returned"
    /\ UNCHANGED <<rec_hls_root, sessions, manifests, files, recAlive, recNextPid, rpc,
                   rop, frame, todo, output_paths, recLog, absent, prevStop, replaced, tasks>>
    /\ UNCHANGED rtspVars

NextFixed ==
    \/ RecordCamerasCall(NameMaps, Timestamps)
    \/ TaskStart
    \/ TaskExited
    \/ TaskTimeout
    \/ GatherReturn
    \/ RecWrite
    \/ RecExit
    \/ ManifestChange

SpecFixed == Init /\ [][NextFixed]_vars

NextRec ==
    \/ StartRecordingCall({NoNames}, {<<"D", "_", "0">>})
    \/ StartRecStep
    \/ StartRecDone
    \/ StopRecordingCall
    \/ StopRecStep
    \/ StopRecDone
    \/ RecStopAllCall
    \/ RecWrite
    \/ RecExit
    \/ ManifestChange

SpecRec == Init /\ [][NextRec]_vars

\* sessions under every display-name map and timestamp; recording processes
\* only end and write their file when they are stopped
NextPaths ==
    \/ StartRecordingCall(NameMaps, Timestamps)
    \/ StartRecStep
    \/ StartRecDone
    \/ StopRecordingCall
    \/ StopRecStep
    \/ StopRecDone

\* the recorder constructed while every camera's live manifest is on disk
InitPaths ==
    /\ InitRecorderWith({ManifestDir(ensure_hls_root(<<>>), cam) : cam \in RecCams})
    /\ InitRtsp

SpecPaths == InitPaths /\ [][NextPaths]_vars

\* --- RtspManager under snapshots that set the output root

\* snapshots of at most one camera, with every choice of hls_root
RootConfigs == {cfg \in Configs : Len(cfg.cameras) <= 1}

NextRoots ==
    \/ ApplyConfigCall(RootConfigs)
    \/ StopStep
    \/ StopDone
    \/ StartStep
    \/ StartDone

SpecRoots == Init /\ [][NextRoots]_vars

\* --- both managers, with the steps of a call in progress always taken

\* RtspManager, the sessions of VideoRecorder and record_cameras share no
\* variable that enables or disables a step of one another, so a behaviour
\* calls into one of the three only.
RtspUnused == op = "none"
SessionsUnused == rop = "none"
FixedUnused == gstate = "none"

RtspCalls ==
    /\ SessionsUnused /\ FixedUnused
    /\ ApplyConfigCall(DefaultRootConfigs) \/ StopAllCall \/ StartCameraCall

SessionCalls ==
    /\ RtspUnused /\ FixedUnused
    /\ StartRecordingCall({NoNames}, {<<"D", "_", "0">>}) \/ StopRecordingCall

FixedCalls ==
    /\ RtspUnused /\ SessionsUnused
    /\ RecordCamerasCall({NoNames}, {<<"D", "_", "0">>})

\* the waits of _record_single_camera end: by the exit or by the timeout
TaskWaitEnds == TaskExited \/ TaskTimeout

NextLive ==
    \/ RtspCalls
    \/ StopStep
    \/ StopDone
    \/ StartStep
    \/ StartDone
    \/ TranscodeExit
    \/ SessionCalls
    \/ StartRecStep
    \/ StartRecDone
    \/ StopRecStep
    \/ StopRecDone
    \/ FixedCalls
    \/ TaskStart
    \/ TaskWaitEnds
    \/ GatherReturn
    \/ RecExit

\* A call in progress goes on: the interpreter runs the next statement, a
\* terminate/wait(timeout)/kill sequence answers within its timeout, the event
\* loop resumes a coroutine whose wait is over.  Nothing is assumed about the
\* external processes: they exit or not as they please.
Fairness ==
    /\ WF_vars(StopStep) /\ WF_vars(StopDone)
    /\ WF_vars(StartStep) /\ WF_vars(StartDone)
    /\ WF_vars(StartRecStep) /\ WF_vars(StartRecDone)
    /\ WF_vars(StopRecStep) /\ WF_vars(StopRecDone)
    /\ WF_vars(TaskStart) /\ WF_vars(TaskWaitEnds) /\ WF_vars(GatherReturn)

SpecLive == InitPaths /\ [][NextLive]_vars /\ Fairness

\* --- the supervisor writes manifests, the recorder reads them

\* snapshots with any hls_root and no camera or the one camera cam1
SharedConfigs ==
    {cfg \in RootConfigs :
        \A i \in DOMAIN cfg.cameras :
            cfg.cameras[i] = Camera("cam1", TRUE, Url, <<>>, <<>>, <<>>)}

\* a tracked, running transcode process writes its playlist: index.m3u8 under
\* hls_root / cam_id.  (The table is empty whenever hls_root changes, so every
\* tracked process was started under the current hls_root.)
TranscodeWritesManifest ==
    \E e \in alive :
        /\ pc = "idle"
        /\ SessionsUnused
        /\ e \in Range(processes)
        /\ ManifestDir(hls_root, e.id) \notin manifests
        /\ manifests' = manifests \cup {ManifestDir(hls_root, e.id)}
        /\ UNCHANGED <<rec_hls_root, sessions, files, recAlive, recNextPid, rpc, rop,
                       frame, todo, output_paths, recLog, absent, prevStop, replaced,
                       tasks, gstate, gret>>
        /\ UNCHANGED rtspVars

\* the configuration is applied any number of times, then the transcodes write
\* their manifests, then one session is started
ConfigureCall == SessionsUnused /\ manifests = {} /\ ApplyConfigCall(SharedConfigs)

RecordCall ==
    /\ SessionsUnused
    /\ pc = "idle"
    /\ StartRecordingCall({NoNames}, {<<"D", "_", "0">>})

NextShared ==
    \/ ConfigureCall
    \/ StopStep
    \/ StopDone
    \/ StartStep
    \/ StartDone
    \/ TranscodeWritesManifest
    \/ RecordCall
    \/ StartRecStep
    \/ StartRecDone

SpecShared == Init /\ [][NextShared]_vars

\* --------------------------------------------------- claims on RtspManager

\* ids of the snapshot's cameras that are enabled with a non-empty trimmed URL
Desired(cfg) ==
    {c.id : c \in {d \in Range(cfg.cameras) : d.enabled /\ Strip(d.rtsp_url) # <<>>}}

Launched(id) == [id |-> id, env |-> "spawned"] \in startLog
LaunchFailed(id) == [id |-> id, env |-> "popen_error"] \in startLog

AppliedAndReturned == pc = "idle" /\ op = "apply_config" /\ result = "returned"

\* C1 as stated: once apply_config has returned, the keys of the process table
\* are exactly the ids of the snapshot's cameras that are enabled and have a
\* non-empty trimmed source URL.
C1_KeysEqualDesired ==
    AppliedAndReturned => Keys(processes) = Desired(config)

\* C1 amended: once apply_config has ended (returned or raised), the keys of
\* the process table are exactly the enabled, URL-configured camera ids whose
\* transcode launch succeeded in this call; they are among the non-empty ids
\* of the enabled, URL-configured cameras; and when the call returned, every
\* such camera is present unless its launch failed.
C1_KeysAreLaunchedDesired ==
    (pc = "idle" /\ op = "apply_config") =>
        /\ Keys(processes) \subseteq Desired(config) \ {""}
        /\ Keys(processes) = {id \in Desired(config) : Launched(id)}
        /\ result = "returned" =>
              \A id \in Desired(config) \ {""} :
                  id \in Keys(processes) \/ LaunchFailed(id)

\* C1 witness: apply_config returned over a non-empty earlier table, one camera
\* was launched and another camera's launch failed.
C1_Witness ==
    /\ AppliedAndReturned
    /\ before # <<>>
    /\ Keys(processes) # {}
    /\ \E id \in Desired(config) : LaunchFailed(id) /\ id \notin Keys(processes)

\* C2: whenever stop_all has finished its loop (called on its own or from
\* apply_config), the process table is empty, whatever the visited processes
\* did: exited, timed out and killed, or raised from terminate or kill.
C2_StopAllEmptiesTable ==
    ((pc = "stopping" /\ queue = <<>>) \/ (pc = "idle" /\ op = "stop_all")) =>
        processes = <<>>

\* C2 witness: stop_all returned after visiting two processes, one whose
\* terminate raised and one that timed out (killed, or the kill raised).
C2_Witness ==
    /\ pc = "idle" /\ op = "stop_all" /\ result = "returned"
    /\ Len(before) = 2
    /\ \E a, b \in stopLog :
          /\ a.outcome = "terminate_error"
          /\ b.outcome \in {"timeout_killed", "kill_error"}

\* C3 as stated: at every moment at most one transcode process is running
\* for any camera id, stops that time out or raise included.
C3_OneLiveProcessPerCamera ==
    \A p, q \in alive : p.id = q.id => p = q

\* C10 as stated: when apply_config returns for the second time in a row with
\* the same snapshot, the key set equals the one after the first call and no
\* process instance of the first call is still in the table.
C10_SameKeysAfterRepeat ==
    (AppliedAndReturned /\ repeat) =>
        /\ Keys(processes) = Keys(before)
        /\ Pids(processes) \cap Pids(before) = {}

\* C10 amended: when apply_config returns for the second time in a row with
\* the same snapshot, every process instance tracked after the first call was
\* visited by stop_all and is no longer in the table, every entry is a new
\* instance, a camera tracked after the first call is tracked again unless
\* its launch failed, a camera tracked only after the second call is an
\* enabled, URL-configured one, and the two key sets are equal whenever no
\* launch failed in either call.
C10_RepeatRestartsAll ==
    (AppliedAndReturned /\ repeat) =>
        /\ Pids(processes) \cap Pids(before) = {}
        /\ \A e \in Range(before) : \E l \in stopLog : l.id = e.id
        /\ \A id \in Keys(before) : id \in Keys(processes) \/ LaunchFailed(id)
        /\ Keys(processes) \subseteq Desired(config) \ {""}
        /\ (Keys(before) = Desired(config) \ {""} /\ ~ \E l \in startLog : l.env = "popen_error")
              => Keys(processes) = Keys(before)

\* C10 witness: the second of two apply_config calls with the same snapshot
\* returned, and both calls left a camera running.
C10_Witness ==
    /\ AppliedAndReturned /\ repeat
    /\ before # <<>>
    /\ Keys(processes) = Keys(before)

\* C12 as stated: a camera that apply_config's loop reaches never ends the
\* call, whatever its fields are and whether or not its output directory can
\* be created: the loop goes on to the next camera of the snapshot.
C12_InvalidCameraSkipped ==
    [][(op = "apply_config" /\ pc = "starting" /\ idx <= Len(config.cameras))
          => (pc' = "starting" /\ idx' = idx + 1)]_vars

\* C13: a step in which a launch fails leaves the process table and the running
\* processes as they were and does not end the call -- apply_config moves on to
\* the next camera, start_camera returns -- and when apply_config has returned,
\* every enabled camera of the snapshot with an id and a URL had its launch
\* attempted, and a camera whose launch failed has no entry unless a later
\* element of the snapshot with the same id was launched.
C13_LaunchFailureIsolated ==
    /\ [][(\E e \in startLog' \ startLog : e.env = "popen_error") =>
            /\ processes' = processes
            /\ alive' = alive
            /\ op' = "apply_config" => (pc' = "starting" /\ idx' = idx + 1)
            /\ op' = "start_camera" => result' = "returned"]_vars
    /\ [](AppliedAndReturned =>
            /\ \A id \in Desired(config) \ {""} : Launched(id) \/ LaunchFailed(id)
            /\ \A id \in Desired(config) :
                  (LaunchFailed(id) /\ ~Launched(id)) => id \notin Keys(processes))

\* C13 witness: apply_config returned after the launch of one camera failed and
\* the launch of a later camera of the snapshot succeeded.
C13_Witness ==
    /\ AppliedAndReturned
    /\ \E i, j \in DOMAIN config.cameras :
          /\ i < j
          /\ LaunchFailed(config.cameras[i].id)
          /\ config.cameras[i].id \notin Keys(processes)
          /\ config.cameras[j].id \in Keys(processes)

\* a step of apply_config that spawns a process
ApplySpawns == op = "apply_config" /\ pc = "starting" /\ nextPid' > nextPid

\* When apply_config spawns, stop_all has visited every entry the table held at
\* the call and none of them is in the table any more.
StopsVisitedBeforeStarts ==
    [][ApplySpawns =>
          /\ queue = <<>>
          /\ \A e \in Range(before) :
                e \notin Range(processes) /\ (\E l \in stopLog : l.id = e.id)]_vars

\* C14 as stated: when apply_config spawns its first (or any) new process, every
\* process the table held at the call has been visited by stop_all, is out of
\* the table, and has exited or been killed.
C14_StopsCompleteBeforeStarts ==
    [][ApplySpawns =>
          /\ queue = <<>>
          /\ \A e \in Range(before) :
                e \notin Range(processes) /\ e \notin alive]_vars

StartCameraEnded == pc = "idle" /\ op = "start_camera"

\* the argument of the start_camera that was called on its own
StartedCamera == config.cameras[1]

\* C15: a start_camera whose camera id is falsy, or is a key of the process
\* table at the call, or whose trimmed URL is empty, returns without raising,
\* with the table -- the camera's existing entry included -- as it was at the
\* call, without a launch attempted and without the camera's output directory
\* removed or created.
C15_StartCameraNoOp ==
    (/\ StartCameraEnded
     /\ \/ StartedCamera.id = ""
        \/ StartedCamera.id \in Keys(before)
        \/ Strip(StartedCamera.rtsp_url) = <<>>)
        => /\ result = "returned"
           /\ processes = before
           /\ startLog = {}

\* C15 witness: start_camera was called, with a URL, for a camera that was
\* tracked, and has ended.
C15_Witness ==
    /\ StartCameraEnded
    /\ StartedCamera.id \in Keys(before)
    /\ Strip(StartedCamera.rtsp_url) # <<>>
    /\ \E e \in alive : e.id = StartedCamera.id

\* stop_all visits the entry at the head of its snapshot
StopVisits == pc = "stopping" /\ queue # <<>> /\ queue' = Tail(queue)

KillAttempted(id, log) ==
    \E l \in log : l.id = id /\ l.outcome \in {"timeout_killed", "kill_error"}

\* Every entry that was in the table when stop_all began is visited, whatever
\* happened to the entries before it.
StopAllVisitsEveryEntry ==
    (pc # "stopping" /\ op \in {"stop_all", "apply_config"}) =>
        \A e \in Range(before) : \E l \in stopLog : l.id = e.id

\* C16 as stated: stop_all kills a process exactly when it did not exit in time,
\* so a process that is still running when its entry is dropped from the table
\* had the kill attempted; and a process that exited in time was not killed.
C16_KillBeforeForget ==
    [][StopVisits =>
          /\ Head(queue) \in alive' => KillAttempted(Head(queue).id, stopLog')
          /\ [id |-> Head(queue).id, outcome |-> "exited"] \in stopLog'
                => Head(queue) \notin alive']_vars

\* C19 as stated: when apply_config is called again with the snapshot of the
\* apply_config that returned just before it, the output root it resolves is
\* the directory the previous call resolved, for relative roots of several
\* components too.
C19_ResolvedRootIsStable ==
    [][(op = "apply_config" /\ repeat /\ pc = "stopping" /\ pc' = "starting")
          => hls_root' = hls_root]_vars

\* ------------------------------------------------- claims on VideoRecorder

StopReturned == rpc = "idle" /\ rop = "stop_recording"
StartReturned == rpc = "idle" /\ rop = "start_recording"
PathCams(paths) == {r.cam : r \in paths}

\* C4: a stop_recording whose session id is not in the table -- in particular
\* the second of two calls in a row with the same id, which always finds it
\* gone -- returns an empty map, visits (so terminates) no process, and leaves
\* the session table as it was.
C4_RepeatedStopIsNoOp ==
    /\ [](StopReturned =>
            /\ prevStop = frame.session_id => absent
            /\ absent => output_paths = {} /\ recLog = {} /\ frame.session = <<>>)
    /\ [][(rop' = "stop_recording" /\ absent') => sessions' = sessions]_vars

\* C4 witness: the second of two stop_recording calls in a row with the same
\* id has returned, and a file recorded under that session id is on disk.
C4_Witness ==
    /\ StopReturned
    /\ prevStop = frame.session_id
    /\ \E f \in files : f[Len(f) - 1] = frame.session_id[1]

\* C5: when start_recording has returned, the returned id is a key of the
\* session table and the cameras of its map are exactly the requested cameras
\* whose manifest was found and whose spawn succeeded.
C5_SessionHoldsSpawnedCameras ==
    StartReturned =>
        /\ frame.session_id \in DOMAIN sessions
        /\ ItemCams(sessions[frame.session_id]) =
              {cam \in Range(frame.camera_ids) :
                  \E l \in recLog : l.cam = cam /\ l.manifest /\ l.spawnOk}

\* C5 witness: two cameras were requested, one had no manifest, and the
\* session holds the single other one.
C5_Witness ==
    /\ StartReturned
    /\ Len(frame.camera_ids) = 2
    /\ Len(sessions[frame.session_id]) = 1
    /\ \E l \in recLog : ~l.manifest

\* C6: when stop_recording has returned, the session id is not in the table,
\* every camera of the result was an entry of the popped session with that
\* path and the file is on disk, a camera whose file did not exist when it was
\* looked for is not in the result, and a session without entries gives the
\* empty result.
C6_StopReportsExistingFiles ==
    StopReturned =>
        /\ frame.session_id \notin DOMAIN sessions
        /\ \A r \in output_paths :
              /\ \E i \in DOMAIN frame.session :
                    frame.session[i].cam = r.cam /\ frame.session[i].path = r.path
              /\ r.path \in files
        /\ \A l \in recLog : ~l.file => l.cam \notin PathCams(output_paths)
        /\ frame.session = <<>> => output_paths = {}

\* C6 witness: a session of two cameras was stopped, both processes exited,
\* one file was on disk and is reported, the other was not and is left out.
C6_Witness ==
    /\ StopReturned
    /\ Len(frame.session) = 2
    /\ Cardinality(output_paths) = 1
    /\ \E l \in recLog : l.outcome = "exited" /\ ~l.file

\* C17: when stop_recording has returned, every entry of the popped session was
\* visited (terminate was requested for it), also those after an entry whose
\* terminate or kill raised; the process of an entry that exited or whose wait
\* timed out is gone; and every entry stopped without error whose file was on
\* disk is in the result, whatever happened to the other entries.
C17_StopSessionIsolatesErrors ==
    StopReturned =>
        \A i \in DOMAIN frame.session :
            LET item == frame.session[i] IN
            \E l \in recLog :
                /\ l.cam = item.cam
                /\ l.outcome \in {"exited", "timeout_killed"} =>
                      /\ [pid |-> item.pid, path |-> item.path] \notin recAlive
                      /\ l.file => [cam |-> item.cam, path |-> item.path] \in output_paths

\* C17 witness: a session of two cameras was stopped; terminate or kill raised
\* for the first, and the second, stopped after it, is in the result.
C17_Witness ==
    /\ StopReturned
    /\ Len(frame.session) = 2
    /\ \E l \in recLog :
          l.cam = frame.session[1].cam /\ l.outcome \in {"terminate_error", "kill_error"}
    /\ frame.session[2].cam \in PathCams(output_paths)

\* C7 as stated: the id start_recording draws is never a key of the session
\* table at that moment, so creating the session replaces no active session.
C7_FreshSessionId ==
    [][(rpc = "idle" /\ rpc' = "rec_starting") =>
          frame'.session_id \notin DOMAIN sessions]_vars

\* Two sessions of the table that hold the same camera hold different output
\* paths for it: the keys of the table differ and the path carries the key.
TableSessionsHaveDistinctPaths ==
    \A s1, s2 \in DOMAIN sessions :
        s1 # s2 =>
            \A i \in DOMAIN sessions[s1], j \in DOMAIN sessions[s2] :
                sessions[s1][i].cam = sessions[s2][j].cam =>
                    sessions[s1][i].path # sessions[s2][j].path

\* a recording that was started, never stopped, and whose entry start_recording
\* dropped from the table while its process is still running
StillRecording(e) == e \in replaced /\ [pid |-> e.pid, path |-> e.path] \in recAlive

\* C8 as stated: two sessions that were started and not stopped and record the
\* same camera have different output paths for it, also when they were started
\* within the same second: those of the table among themselves, and those of
\* the table against a session that is still recording after a later
\* start_recording took over its id.
C8_ActiveSessionsHaveDistinctPaths ==
    /\ TableSessionsHaveDistinctPaths
    /\ \A e \in replaced :
          StillRecording(e) =>
              \A s \in DOMAIN sessions :
                  \A i \in DOMAIN sessions[s] :
                      sessions[s][i].cam = e.cam /\ sessions[s][i].pid # e.pid
                          => sessions[s][i].path # e.path

\* C9: when record_cameras has returned, a camera whose process was still
\* running when the timeout expired was killed, is no longer alive and is not
\* in the result, and every camera whose
\* process exited in time with its file on disk is in the result with its path.
C9_TimeoutIsolated ==
    gstate = "returned" =>
        \A i \in DOMAIN tasks :
            /\ tasks[i].env = "hung" =>
                  /\ tasks[i].cam \notin PathCams(gret)
                  /\ tasks[i].kill = "killed"
                  /\ TaskProc(tasks[i]) \notin recAlive
            /\ (tasks[i].env = "exited" /\ tasks[i].file) =>
                  [cam |-> tasks[i].cam, path |-> tasks[i].path] \in gret

\* C9 witness: record_cameras returned after one camera timed out and another
\* exited in time with its file on disk.
C9_Witness ==
    /\ gstate = "returned"
    /\ \E i, j \in DOMAIN tasks :
          /\ tasks[i].env = "hung"
          /\ tasks[j].env = "exited" /\ tasks[j].file


\* C18: record_cameras returns only when every coroutine has ended; a coroutine
\* that has ended is not run again; a camera whose manifest was missing ended
\* without a process spawned for it; and the cameras of the returned map are
\* exactly those whose process exited in time with the file on disk (failures
\* are left out of the map, not raised).
C18_GatherCollectsSuccesses ==
    /\ [](gstate = "returned" =>
            /\ \A i \in DOMAIN tasks :
                  /\ tasks[i].state = "done"
                  /\ tasks[i].env = "no_manifest" => tasks[i].pid = 0
            /\ PathCams(gret) =
                  {tasks[i].cam : i \in {j \in DOMAIN tasks :
                                            tasks[j].env = "exited" /\ tasks[j].file}})
    /\ [][(gstate = "running" /\ gstate' = "running") =>
            \A i \in DOMAIN tasks :
                tasks[i].state = "done" => tasks'[i] = tasks[i]]_vars

\* C18 witness: record_cameras returned a map of one camera after the other
\* camera's manifest was missing.
C18_Witness ==
    /\ gstate = "returned"
    /\ Cardinality(gret) = 1
    /\ \E i \in DOMAIN tasks : tasks[i].env = "no_manifest"


\* C20 as stated: when VideoRecorder.stop_all has ended, it has not raised, the
\* session table is empty, and no process of a session is still running
\* without termination having been requested.
C20_RecorderStopAllStopsSessions ==
    (rop = "stop_all" /\ rpc = "idle") =>
        /\ \A l \in recLog : "raised" \notin DOMAIN l
        /\ DOMAIN sessions = {}


\* C11: no call blocks for ever, whatever the external processes do: a stop_all
\* or apply_config in progress ends, a stop_recording in progress returns, and
\* a record_cameras in progress returns.
C11_CallsEnd ==
    /\ (pc # "idle") ~> (pc = "idle")
    /\ (rpc = "rec_stopping") ~> (rpc = "idle")
    /\ (gstate = "running") ~> (gstate = "returned")

\* C11 witness: record_cameras returned after the wait for a process that did
\* not exit was ended by the timeout.
C11_Witness ==
    /\ gstate = "returned"
    /\ \E i \in DOMAIN tasks : tasks[i].env = "hung"


\* C21 as stated: within one session, two distinct cameras have two distinct
\* output paths, whatever the display-name map is.
C21_CamerasOfACallHaveDistinctPaths ==
    \A s \in DOMAIN sessions :
        \A i, j \in DOMAIN sessions[s] :
            sessions[s][i].cam # sessions[s][j].cam =>
                sessions[s][i].path # sessions[s][j].path


\* the camera has a tracked, running transcode process whose manifest is on disk
Streaming(cam) ==
    /\ \E e \in alive : e \in Range(processes) /\ e.id = cam
    /\ ManifestDir(hls_root, cam) \in manifests

\* C22 as stated: the recorder looks for a camera's manifest where the
\* supervisor writes it, so start_recording never skips, as manifest-missing, a
\* camera that is streaming at that moment.
C22_StreamingCameraIsRecorded ==
    [][(rpc = "rec_starting" /\ todo # <<>> /\ todo' = Tail(todo) /\ Streaming(Head(todo)))
          => \A l \in recLog' \ recLog : l.manifest]_vars

=============================================================================
